---- MODULE Spec2Model ----
(***************************************************************************)
(* Email tracking server: four tables (emails, opens, links, clicks) and   *)
(* the HTTP handlers that write and read them.  The repository holds two   *)
(* server files: src/index.js (better-sqlite3, prepared statements with    *)
(* bound parameters, FOREIGN KEY clauses in the schema) and                *)
(* src/unnamed/part_000 (sql.js, lookups built by string interpolation     *)
(* and run with db.exec, no FOREIGN KEY clause).  The variable `server`    *)
(* says which of the two files is running, and whether the engine enforces *)
(* the schema's FOREIGN KEY clauses.                                       *)
(*                                                                         *)
(* Strings that reach a query are sequences of tokens, so that the text    *)
(* of an interpolated query can be read the way the SQL engine reads it.   *)
(***************************************************************************)
EXTENDS Integers, Sequences, FiniteSets, TLC

VARIABLES
    server,     \* file: "index" (src/index.js) or "part_000" (src/unnamed/part_000);
                \* foreign_keys: the engine's PRAGMA foreign_keys
    emails,     \* table emails: set of rows
    opens,      \* table opens: set of rows
    links,      \* table links: set of rows
    clicks,     \* table clicks: set of rows
    open_seq,   \* AUTOINCREMENT counter of opens.id
    click_seq,  \* AUTOINCREMENT counter of clicks.id
    now,        \* CURRENT_TIMESTAMP, in seconds; the requests of a behaviour
                \* are served within one second of the clock
    last        \* the last request handled and the response it got

vars == <<server, emails, opens, links, clicks, open_seq, click_seq, now, last>>

----------------------------------------------------------------------------
(* Bounds of the model *)

\* Pixel fetches and link visits served in one behaviour
MaxEvents == 2

----------------------------------------------------------------------------
(* Values *)

None == "null"
QUOTE == "'"
\* Neither file sets PRAGMA foreign_keys, so the engine's build decides it
\* (better-sqlite3 is built with it on); part_000 declares no FOREIGN KEY.
Servers ==
    { [file |-> "index", foreign_keys |-> TRUE],
      [file |-> "index", foreign_keys |-> FALSE],
      [file |-> "part_000", foreign_keys |-> FALSE] }

Str(t) == <<t>>

TRACKING_PIXEL == "iVBORw0KGgoAAAANSUhEUgAAAAEAAAABCAYAAAAfFcSJAAAADUlEQVR42mNk+M9QDwADhgGAWjR9awAAAABJRU5ErkJggg=="

\* The request headers and peer address the handlers read
Direct == [xff |-> None, ip |-> "10.0.0.1", ua |-> None]
Proxied == [xff |-> "203.0.113.9", ip |-> "10.0.0.1", ua |-> "Mozilla"]

\* req.headers['x-forwarded-for'] || req.ip
ClientIp(c) == IF c.xff # None THEN c.xff ELSE c.ip
\* req.headers['user-agent'] || 'Unknown'
ClientAgent(c) == IF c.ua # None THEN c.ua ELSE "Unknown"

\* getBaseUrl(req)
getBaseUrl == "http://host"

DB == [emails |-> emails, opens |-> opens, links |-> links, clicks |-> clicks,
       open_seq |-> open_seq, click_seq |-> click_seq]

Ids(rows) == {r.id : r \in rows}

\* FOREIGN KEY (email_id) REFERENCES emails(id), FOREIGN KEY (link_id)
\* REFERENCES links(id): declared by src/index.js only, and enforced when
\* the pragma is on.
ForeignKeys(srv) == srv.file = "index" /\ srv.foreign_keys

----------------------------------------------------------------------------
(* Query text built by interpolation (part_000) or with bound parameters   *)
(* (index.js).                                                             *)
(*                                                                         *)
(* part_000 writes  ... WHERE col = '${s}'  and hands the text to db.exec, *)
(* which runs every statement of the text in turn and throws at the first  *)
(* one that does not parse.  Interpolate(s) is the engine's reading of     *)
(* '${s}' and what follows it on the line.  The grammar covers the request *)
(* strings of the model (plain strings and InjectionStrings); any other    *)
(* continuation after a closing quote is read as a syntax error.           *)

Statements == {"DELETE FROM emails", "DELETE FROM opens",
               "DELETE FROM links", "DELETE FROM clicks"}

FirstQuote(s) ==
    IF \E i \in 1..Len(s) : s[i] = QUOTE
    THEN CHOOSE i \in 1..Len(s) : s[i] = QUOTE /\ \A j \in 1..(i - 1) : s[j] # QUOTE
    ELSE 0

\* lit: the string literal compared with the column; taut: an OR-ed
\* comparison of two literals that is true; stacked: the statements that
\* follow the first one (a closing -- comments out the template's own
\* closing quote); err: the text does not parse.
Interpolate(s) ==
    LET q == FirstQuote(s)
        rest == SubSeq(s, q + 1, Len(s))
        plain == [err |-> FALSE, lit |-> s, taut |-> FALSE, stacked |-> <<>>]
    IN  IF q = 0 THEN plain
        ELSE IF /\ Len(rest) = 7
                /\ rest[1] = "OR" /\ rest[2] = QUOTE /\ rest[3] # QUOTE /\ rest[4] = QUOTE
                /\ rest[5] = "=" /\ rest[6] = QUOTE /\ rest[7] # QUOTE
             THEN [plain EXCEPT !.lit = SubSeq(s, 1, q - 1), !.taut = (rest[3] = rest[7])]
        ELSE IF /\ Len(rest) = 4
                /\ rest[1] = ";" /\ rest[2] \in Statements /\ rest[3] = ";" /\ rest[4] = "--"
             THEN [plain EXCEPT !.lit = SubSeq(s, 1, q - 1), !.stacked = <<rest[2]>>]
        ELSE IF rest = <<"--">>
             THEN [plain EXCEPT !.lit = SubSeq(s, 1, q - 1)]
        ELSE [plain EXCEPT !.err = TRUE]

\* x' OR '1'='1
TAUT == <<"x", QUOTE, "OR", QUOTE, "1", QUOTE, "=", QUOTE, "1">>
\* x';DELETE FROM opens;--
STACKED == <<"x", QUOTE, ";", "DELETE FROM opens", ";", "--">>
InjectionStrings == {TAUT, STACKED}

\* WHERE col = ? (index.js) / WHERE col = '${param}' (part_000), on one row
Where(srv, param, value) ==
    IF srv.file = "index" THEN value = param
    ELSE LET p == Interpolate(param) IN value = p.lit \/ p.taut

ApplyStatement(db, stmt) ==
    CASE stmt = "DELETE FROM emails" -> [db EXCEPT !.emails = {}]
      [] stmt = "DELETE FROM opens" -> [db EXCEPT !.opens = {}]
      [] stmt = "DELETE FROM links" -> [db EXCEPT !.links = {}]
      [] stmt = "DELETE FROM clicks" -> [db EXCEPT !.clicks = {}]

RECURSIVE ApplyStatements(_, _)
ApplyStatements(db, stmts) ==
    IF stmts = <<>> THEN db
    ELSE ApplyStatements(ApplyStatement(db, Head(stmts)), Tail(stmts))

\* One lookup: stmt.get/.all (index.js) or db.exec (part_000).
\*   threw: the call throws; db: the tables after the call.
\* `ioerr`: the engine fails the call before it runs anything.
\* `trailer`: the template goes on after the interpolation on later lines
\* (ORDER BY ...), which a stacked text leaves behind as a statement of its
\* own that does not parse: db.exec throws after the stacked ones ran.
Exec(db, srv, param, trailer, ioerr) ==
    IF ioerr THEN [threw |-> TRUE, db |-> db]
    ELSE IF srv.file = "index" THEN [threw |-> FALSE, db |-> db]
    ELSE LET p == Interpolate(param)
         IN IF p.err THEN [threw |-> TRUE, db |-> db]
            ELSE [threw |-> p.stacked # <<>> /\ trailer,
                  db |-> ApplyStatements(db, p.stacked)]

----------------------------------------------------------------------------
(* GET /t/:emailId.png *)

PixelResponse ==
    [status |-> 200, type |-> "image/png", body |-> TRACKING_PIXEL,
     cache |-> "no-store, no-cache, must-revalidate, private"]

\* INSERT INTO opens (email_id, ip_address, user_agent) VALUES (?, ?, ?)
\* `ioerr`: the engine fails the statement (I/O error, database busy or full).
InsertOpen(db, srv, t, emailId, c, ioerr) ==
    IF ioerr \/ (ForeignKeys(srv) /\ emailId \notin Ids(db.emails))
    THEN [ok |-> FALSE, db |-> db]
    ELSE [ok |-> TRUE,
          db |-> [db EXCEPT
                    !.opens = @ \cup {[id |-> db.open_seq + 1, email_id |-> emailId,
                                       opened_at |-> t, ip_address |-> ClientIp(c),
                                       user_agent |-> ClientAgent(c)]},
                    !.open_seq = @ + 1]]

\* Mutant: the insert is not in a try/catch of its own, so its failure
\* reaches the client.
PixelHandlerNoCatch(db, srv, t, emailId, c, fail) ==
    LET ins == InsertOpen(db, srv, t, emailId, c, fail = 1)
    IN  IF ins.ok THEN {[db |-> ins.db, resp |-> PixelResponse]}
        ELSE {[db |-> ins.db, resp |-> [status |-> 500, body |-> "Error"]]}

\* The handler: the insert in a try/catch that only logs, then the pixel.
\* `fail` = k: the engine fails the k-th statement of the handler, if the
\* handler gets to it (0: none).
PixelHandler(db, srv, t, emailId, c, fail) ==
    LET ins == InsertOpen(db, srv, t, emailId, c, fail = 1)
    IN  {[db |-> ins.db, resp |-> PixelResponse]}

----------------------------------------------------------------------------
(* GET /c/:linkId *)

\* INSERT INTO clicks (link_id, ip_address, user_agent) VALUES (?, ?, ?)
InsertClick(db, srv, t, linkId, c, ioerr) ==
    IF ioerr \/ (ForeignKeys(srv) /\ linkId \notin Ids(db.links))
    THEN [ok |-> FALSE, db |-> db]
    ELSE [ok |-> TRUE,
          db |-> [db EXCEPT
                    !.clicks = @ \cup {[id |-> db.click_seq + 1, link_id |-> linkId,
                                        clicked_at |-> t, ip_address |-> ClientIp(c),
                                        user_agent |-> ClientAgent(c)]},
                    !.click_seq = @ + 1]]

\* SELECT original_url FROM links WHERE id = ...
LookupLink(db, srv, linkId) == {l \in db.links : Where(srv, linkId, l.id)}

ClickError == [status |-> 500, body |-> "Error processing request"]
ClickNotFound == [status |-> 404, body |-> "Link not found"]
Redirect(url) == [status |-> 302, location |-> url]

\* The whole handler is one try block: lookup, 404 when it finds nothing,
\* insert, redirect; the catch answers 500.  The lookup's first row is the
\* one used; with no ORDER BY any matching row may come first.
ClickHandler(db, srv, t, linkId, c, fail) ==
    LET q == Exec(db, srv, linkId, FALSE, fail = 1)
        found == LookupLink(db, srv, linkId)
    IN  IF q.threw THEN {[db |-> q.db, resp |-> ClickError]}
        ELSE IF found = {} THEN {[db |-> q.db, resp |-> ClickNotFound]}
        ELSE LET ins == InsertClick(q.db, srv, t, linkId, c, fail = 2)
             IN  IF ~ins.ok THEN {[db |-> ins.db, resp |-> ClickError]}
                 ELSE {[db |-> ins.db, resp |-> Redirect(l.original_url)] : l \in found}

----------------------------------------------------------------------------
(* POST /api/emails, POST /api/links *)

PixelUrl(emailId) == <<getBaseUrl, "/t/">> \o emailId \o <<".png">>
TrackedUrl(linkId) == <<getBaseUrl, "/c/">> \o linkId

\* Mutant: id is not a key of the table.
InsertEmailNoKey(db, t, emailId, body, ioerr) ==
    IF ioerr
    THEN [ok |-> FALSE, db |-> db]
    ELSE [ok |-> TRUE,
          db |-> [db EXCEPT
                    !.emails = @ \cup {[id |-> emailId, subject |-> body.subject,
                                        recipient |-> body.recipient, sent_at |-> t,
                                        user_email |-> body.userEmail]}]]

\* INSERT INTO emails (id, subject, recipient, user_email) VALUES (?, ?, ?, ?)
\* id is the PRIMARY KEY: a second row with the same id is refused.
InsertEmail(db, t, emailId, body, ioerr) ==
    IF ioerr \/ emailId \in Ids(db.emails)
    THEN [ok |-> FALSE, db |-> db]
    ELSE [ok |-> TRUE,
          db |-> [db EXCEPT
                    !.emails = @ \cup {[id |-> emailId, subject |-> body.subject,
                                        recipient |-> body.recipient, sent_at |-> t,
                                        user_email |-> body.userEmail]}]]

\* `emailId` is what crypto.randomBytes(8).toString('hex') returned
PostEmailsHandler(db, t, emailId, body, fail) ==
    LET ins == InsertEmail(db, t, emailId, body, fail = 1)
    IN  IF ~ins.ok
        THEN {[db |-> ins.db, resp |-> [status |-> 500, error |-> "Failed to create email"]]}
        ELSE {[db |-> ins.db,
               resp |-> [status |-> 200, emailId |-> emailId,
                         trackingPixel |-> PixelUrl(emailId)]]}

\* INSERT INTO links (id, email_id, original_url) VALUES (?, ?, ?)
InsertLink(db, srv, t, linkId, body, ioerr) ==
    IF \/ ioerr
       \/ linkId \in Ids(db.links)
       \/ (ForeignKeys(srv) /\ body.emailId \notin Ids(db.emails))
    THEN [ok |-> FALSE, db |-> db]
    ELSE [ok |-> TRUE,
          db |-> [db EXCEPT
                    !.links = @ \cup {[id |-> linkId, email_id |-> body.emailId,
                                       original_url |-> body.originalUrl,
                                       created_at |-> t]}]]

\* `linkId` is what crypto.randomBytes(6).toString('hex') returned
PostLinksHandler(db, srv, t, linkId, body, fail) ==
    LET ins == InsertLink(db, srv, t, linkId, body, fail = 1)
    IN  IF ~ins.ok
        THEN {[db |-> ins.db, resp |-> [status |-> 500, error |-> "Failed to create link"]]}
        ELSE {[db |-> ins.db,
               resp |-> [status |-> 200, linkId |-> linkId,
                         trackedUrl |-> TrackedUrl(linkId)]]}

----------------------------------------------------------------------------
(* GET /api/emails?userEmail= *)

ListLimit == 100

Max(S) == CHOOSE x \in S : \A y \in S : y <= x

\* (SELECT COUNT(*) FROM opens WHERE email_id = e.id)
OpenCount(db, emailId) == Cardinality({o \in db.opens : o.email_id = emailId})

\* (SELECT COUNT(*) FROM clicks c JOIN links l ON c.link_id = l.id WHERE l.email_id = e.id)
ClickCount(db, emailId) ==
    Cardinality({p \in db.clicks \X db.links :
                    p[1].link_id = p[2].id /\ p[2].email_id = emailId})

\* (SELECT MAX(opened_at) FROM opens WHERE email_id = e.id)
LastOpened(db, emailId) ==
    LET at == {o.opened_at : o \in {x \in db.opens : x.email_id = emailId}}
    IN  IF at = {} THEN None ELSE Max(at)

ListRow(db, e) ==
    [id |-> e.id, subject |-> e.subject, recipient |-> e.recipient, sent_at |-> e.sent_at,
     open_count |-> OpenCount(db, e.id), last_opened |-> LastOpened(db, e.id),
     click_count |-> ClickCount(db, e.id)]

\* FROM emails e WHERE e.user_email = ...
OwnedBy(db, srv, userEmail) == {e \in db.emails : Where(srv, userEmail, e.user_email)}

\* ORDER BY sent_at DESC LIMIT n: the row sets the engine may return (rows
\* of equal sent_at come in no stated order, so a tie at the cut goes
\* either way).
Newest(rows, n) ==
    IF Cardinality(rows) <= n THEN {rows}
    ELSE LET sure == {r \in rows : Cardinality({x \in rows : x.sent_at >= r.sent_at}) <= n}
             ties == {r \in rows \ sure : Cardinality({x \in rows : x.sent_at > r.sent_at}) < n}
         IN  {sure \cup T : T \in {S \in SUBSET ties : Cardinality(S) = n - Cardinality(sure)}}

\* The response body is the set of the rows returned (their order left out).
ListHandler(db, srv, userEmail, fail) ==
    LET q == Exec(db, srv, userEmail, TRUE, fail = 1)
    IN  IF q.threw
        THEN {[db |-> q.db, resp |-> [status |-> 500, error |-> "Failed to fetch emails"]]}
        ELSE {[db |-> q.db, resp |-> [status |-> 200, body |-> {ListRow(db, e) : e \in rows}]] :
                rows \in Newest(OwnedBy(db, srv, userEmail), ListLimit)}

----------------------------------------------------------------------------
(* GET /api/emails/:emailId *)

\* SELECT opened_at, ip_address, user_agent FROM opens WHERE email_id = ...
\* A list of rows is modelled as the set of them, each keeping its rowid so
\* that equal rows stay apart.
DetailOpens(db, srv, emailId) ==
    {[id |-> o.id, opened_at |-> o.opened_at, ip_address |-> o.ip_address,
      user_agent |-> o.user_agent] : o \in {x \in db.opens : Where(srv, emailId, x.email_id)}}

\* SELECT l.id, l.original_url, (SELECT COUNT(*) FROM clicks WHERE link_id = l.id)
DetailLinks(db, srv, emailId) ==
    {[id |-> l.id, original_url |-> l.original_url,
      click_count |-> Cardinality({c \in db.clicks : c.link_id = l.id})] :
        l \in {x \in db.links : Where(srv, emailId, x.email_id)}}

\* SELECT ... FROM clicks c JOIN links l ON c.link_id = l.id WHERE l.email_id = ...
DetailClicks(db, srv, emailId) ==
    {[id |-> p[1].id, link |-> p[2].id, clicked_at |-> p[1].clicked_at,
      ip_address |-> p[1].ip_address, user_agent |-> p[1].user_agent,
      original_url |-> p[2].original_url] :
        p \in {x \in db.clicks \X db.links :
                 x[1].link_id = x[2].id /\ Where(srv, emailId, x[2].email_id)}}

\* Mutant: the addresses are counted without the Set.
DetailStatsNoSet(os, cs) ==
    [totalOpens |-> Cardinality(os),
     uniqueOpens |-> Cardinality(os),
     totalClicks |-> Cardinality(cs),
     uniqueClicks |-> Cardinality(cs)]

\* opens.length, new Set(opens.map(o => o.ip_address)).size, ...
DetailStats(os, cs) ==
    [totalOpens |-> Cardinality(os),
     uniqueOpens |-> Cardinality({o.ip_address : o \in os}),
     totalClicks |-> Cardinality(cs),
     uniqueClicks |-> Cardinality({c.ip_address : c \in cs})]

DetailError == [status |-> 500, error |-> "Failed to fetch email details"]

\* Mutant: a failure of the links or clicks lookup is swallowed and the
\* rows read so far are returned.
DetailHandlerPartial(db, srv, emailId, fail) ==
    LET q1 == Exec(db, srv, emailId, FALSE, fail = 1)
        found == {e \in db.emails : Where(srv, emailId, e.id)}
        q2 == Exec(q1.db, srv, emailId, TRUE, fail = 2)
        os == DetailOpens(q1.db, srv, emailId)
    IN  IF q1.threw THEN {[db |-> q1.db, resp |-> DetailError]}
        ELSE IF found = {}
             THEN {[db |-> q1.db, resp |-> [status |-> 404, error |-> "Email not found"]]}
        ELSE IF q2.threw THEN {[db |-> q2.db, resp |-> DetailError]}
        ELSE {[db |-> q2.db,
               resp |-> [status |-> 200, email |-> e, opens |-> os, links |-> {},
                         clicks |-> {}, stats |-> DetailStats(os, {})]] : e \in found}

\* Four lookups in one try block; each reads the tables the one before left.
DetailHandler(db, srv, emailId, fail) ==
    LET q1 == Exec(db, srv, emailId, FALSE, fail = 1)
        found == {e \in db.emails : Where(srv, emailId, e.id)}
        q2 == Exec(q1.db, srv, emailId, TRUE, fail = 2)
        os == DetailOpens(q1.db, srv, emailId)
        q3 == Exec(q2.db, srv, emailId, FALSE, fail = 3)
        ls == DetailLinks(q2.db, srv, emailId)
        q4 == Exec(q3.db, srv, emailId, TRUE, fail = 4)
        cs == DetailClicks(q3.db, srv, emailId)
    IN  IF q1.threw THEN {[db |-> q1.db, resp |-> DetailError]}
        ELSE IF found = {}
             THEN {[db |-> q1.db, resp |-> [status |-> 404, error |-> "Email not found"]]}
        ELSE IF q2.threw THEN {[db |-> q2.db, resp |-> DetailError]}
        ELSE IF q3.threw THEN {[db |-> q3.db, resp |-> DetailError]}
        ELSE IF q4.threw THEN {[db |-> q4.db, resp |-> DetailError]}
        ELSE {[db |-> q4.db,
               resp |-> [status |-> 200, email |-> e, opens |-> os, links |-> ls,
                         clicks |-> cs, stats |-> DetailStats(os, cs)]] : e \in found}

----------------------------------------------------------------------------
(* GET /api/stats?userEmail= *)

\* COUNT(DISTINCT e.id) FROM emails e WHERE e.user_email = ...
TotalEmails(db, srv, userEmail) == Cardinality(Ids(OwnedBy(db, srv, userEmail)))

\* COUNT(*) FROM opens o JOIN emails e ON o.email_id = e.id WHERE e.user_email = ...
TotalOpens(db, srv, userEmail) ==
    Cardinality({p \in db.opens \X OwnedBy(db, srv, userEmail) : p[1].email_id = p[2].id})

\* Mutant: the clicks are not joined through to the owner's emails.
TotalClicksAnyOwner(db, srv, userEmail) ==
    Cardinality({p \in db.clicks \X db.links : p[1].link_id = p[2].id})

\* COUNT(*) FROM clicks c JOIN links l ON c.link_id = l.id
\*   JOIN emails e ON l.email_id = e.id WHERE e.user_email = ...
TotalClicks(db, srv, userEmail) ==
    Cardinality({p \in db.clicks \X db.links \X OwnedBy(db, srv, userEmail) :
                    p[1].link_id = p[2].id /\ p[2].email_id = p[3].id})

\* DATE(x), with the clock in seconds
Date(t) == t \div 86400

\* opens of the user's emails of the last 7 days, counted per day (index.js)
OpensByDay(db, srv, userEmail, t) ==
    LET recent == {p \in db.opens \X OwnedBy(db, srv, userEmail) :
                      p[1].email_id = p[2].id /\ Date(p[1].opened_at) >= Date(t) - 7}
    IN  {[date |-> d, count |-> Cardinality({p \in recent : Date(p[1].opened_at) = d})] :
            d \in {Date(p[1].opened_at) : p \in recent}}

StatsError == [status |-> 500, error |-> "Failed to fetch stats"]

\* the statements the handler runs
StatsQueries(srv) == IF srv.file = "index" THEN 2 ELSE 3

\* index.js: one statement for the three totals, one for opensByDay.
\* part_000: one db.exec per total.
StatsHandler(db, srv, t, userEmail, fail) ==
    IF srv.file = "index"
    THEN IF fail \in {1, 2} THEN {[db |-> db, resp |-> StatsError]}
         ELSE {[db |-> db,
                resp |-> [status |-> 200,
                          total_emails |-> TotalEmails(db, srv, userEmail),
                          total_opens |-> TotalOpens(db, srv, userEmail),
                          total_clicks |-> TotalClicks(db, srv, userEmail),
                          opensByDay |-> OpensByDay(db, srv, userEmail, t)]]}
    ELSE LET q1 == Exec(db, srv, userEmail, FALSE, fail = 1)
             q2 == Exec(q1.db, srv, userEmail, FALSE, fail = 2)
             q3 == Exec(q2.db, srv, userEmail, FALSE, fail = 3)
         IN  IF q1.threw THEN {[db |-> q1.db, resp |-> StatsError]}
             ELSE IF q2.threw THEN {[db |-> q2.db, resp |-> StatsError]}
             ELSE IF q3.threw THEN {[db |-> q3.db, resp |-> StatsError]}
             ELSE {[db |-> q3.db,
                    resp |-> [status |-> 200,
                              total_emails |-> Cardinality(OwnedBy(db, srv, userEmail)),
                              total_opens |-> TotalOpens(q1.db, srv, userEmail),
                              total_clicks |-> TotalClicks(q2.db, srv, userEmail)]]}

----------------------------------------------------------------------------
(* GET /health *)

HealthHandler(db) == {[db |-> db, resp |-> [status |-> 200, body |-> [status |-> "ok"]]]}

----------------------------------------------------------------------------
(* Actions *)

Commit(out) ==
    /\ emails' = out.db.emails
    /\ opens' = out.db.opens
    /\ links' = out.db.links
    /\ clicks' = out.db.clicks
    /\ open_seq' = out.db.open_seq
    /\ click_seq' = out.db.click_seq
    /\ UNCHANGED <<server, now>>

\* Requests of the model
E1 == Str("e1")
E2 == Str("e2")
L1 == Str("l1")
L2 == Str("l2")
U1 == Str("u1")
U2 == Str("u2")

PixelRequests ==
    { [emailId |-> E1, c |-> Direct], [emailId |-> E1, c |-> Proxied],
      [emailId |-> E2, c |-> Direct] }
ClickRequests ==
    { [linkId |-> L1, c |-> Direct], [linkId |-> L1, c |-> Proxied],
      [linkId |-> L2, c |-> Direct],
      [linkId |-> TAUT, c |-> Direct], [linkId |-> STACKED, c |-> Direct] }
\* the request body and the id crypto.randomBytes draws for it
EmailRegistrations ==
    { [id |-> E1, body |-> [subject |-> "Hello", recipient |-> "a@example.com", userEmail |-> U1]],
      [id |-> E2, body |-> [subject |-> "Hello", recipient |-> "a@example.com", userEmail |-> U1]],
      [id |-> E2, body |-> [subject |-> "Hello", recipient |-> "a@example.com", userEmail |-> U2]] }
LinkRegistrations ==
    { [id |-> L1, body |-> [emailId |-> E1, originalUrl |-> "https://example.com"]],
      [id |-> L2, body |-> [emailId |-> E1, originalUrl |-> "https://example.org"]],
      [id |-> L2, body |-> [emailId |-> E2, originalUrl |-> "https://example.org"]] }
UserInputs == {U1, U2} \cup InjectionStrings
DetailInputs == {E1, E2} \cup InjectionStrings

GetPixel ==
    \E r \in PixelRequests, fail \in 0..1 :
        /\ open_seq + click_seq < MaxEvents
        /\ \E out \in PixelHandler(DB, server, now, r.emailId, r.c, fail) :
            /\ Commit(out)
            /\ last' = [op |-> "pixel", arg |-> r.emailId, fail |-> fail, resp |-> out.resp]

GetClick ==
    \E r \in ClickRequests, fail \in 0..2 :
        /\ open_seq + click_seq < MaxEvents
        /\ \E out \in ClickHandler(DB, server, now, r.linkId, r.c, fail) :
            /\ Commit(out)
            /\ last' = [op |-> "click", arg |-> r.linkId, fail |-> fail, resp |-> out.resp]

PostEmails ==
    \E r \in EmailRegistrations, fail \in 0..1 :
        \E out \in PostEmailsHandler(DB, now, r.id, r.body, fail) :
            /\ Commit(out)
            /\ last' = [op |-> "postEmails", arg |-> r.id, fail |-> fail, resp |-> out.resp]

PostLinks ==
    \E r \in LinkRegistrations, fail \in 0..1 :
        \E out \in PostLinksHandler(DB, server, now, r.id, r.body, fail) :
            /\ Commit(out)
            /\ last' = [op |-> "postLinks", arg |-> r.id, fail |-> fail, resp |-> out.resp]

GetEmails ==
    \E userEmail \in UserInputs, fail \in 0..1 :
        \E out \in ListHandler(DB, server, userEmail, fail) :
            /\ Commit(out)
            /\ last' = [op |-> "list", arg |-> userEmail, fail |-> fail, resp |-> out.resp]

GetEmailDetail ==
    \E emailId \in DetailInputs, fail \in 0..4 :
        \E out \in DetailHandler(DB, server, emailId, fail) :
            /\ Commit(out)
            /\ last' = [op |-> "detail", arg |-> emailId, fail |-> fail, resp |-> out.resp]

GetStats ==
    \E userEmail \in UserInputs, fail \in 0..StatsQueries(server) :
        \E out \in StatsHandler(DB, server, now, userEmail, fail) :
            /\ Commit(out)
            /\ last' = [op |-> "stats", arg |-> userEmail, fail |-> fail, resp |-> out.resp]

GetHealth ==
    \E out \in HealthHandler(DB) :
        /\ Commit(out)
        /\ last' = [op |-> "health", arg |-> <<>>, fail |-> 0, resp |-> out.resp]

NoRequest == [op |-> "none", arg |-> <<>>, fail |-> 0, resp |-> [status |-> 0]]

Init ==
    /\ server \in Servers
    /\ emails = {}
    /\ opens = {}
    /\ links = {}
    /\ clicks = {}
    /\ open_seq = 0
    /\ click_seq = 0
    /\ now = 0
    /\ last = NoRequest

Next ==
    \/ GetPixel
    \/ GetClick
    \/ PostEmails
    \/ PostLinks
    \/ GetEmails
    \/ GetEmailDetail
    \/ GetStats
    \/ GetHealth

Spec == Init /\ [][Next]_vars

----------------------------------------------------------------------------
(* A database that has been in use.  src/index.js keeps its tables in the *)
(* file tracking.db and creates them IF NOT EXISTS, so what earlier runs   *)
(* wrote is there when the server starts: E2 and E1 were registered first, *)
(* then ListLimit - 1 or ListLimit further emails of E1's user, one per    *)
(* second, and two links.  Each such state is also reached from Init by    *)
(* that many POST /api/emails and POST /api/links requests.                *)

OlderEmail(i) ==
    [id |-> <<"b", ToString(i)>>, subject |-> "Hello", recipient |-> "a@example.com",
     sent_at |-> 0 - i, user_email |-> U1]

InUse(n) ==
    /\ emails = {OlderEmail(i) : i \in 1..n}
                \cup {[id |-> E1, subject |-> "Hello", recipient |-> "a@example.com",
                       sent_at |-> 0 - (n + 1), user_email |-> U1],
                      [id |-> E2, subject |-> "Hello", recipient |-> "a@example.com",
                       sent_at |-> 0 - (n + 2), user_email |-> U2]}
    /\ links = {[id |-> L1, email_id |-> E1, original_url |-> "https://example.com",
                 created_at |-> 0 - 1],
                [id |-> L2, email_id |-> E2, original_url |-> "https://example.org",
                 created_at |-> 0 - 1]}
    /\ opens = {}
    /\ clicks = {}
    /\ open_seq = 0
    /\ click_seq = 0
    /\ now = 0
    /\ last = NoRequest

InitInUse ==
    \/ Init
    \/ /\ server \in {x \in Servers : x.file = "index"}
       /\ \E n \in {ListLimit - 1, ListLimit} : InUse(n)

SpecInUse == InitInUse /\ [][Next]_vars

----------------------------------------------------------------------------
(* Properties *)

tables == <<emails, opens, links, clicks>>

\* C1: when GET /c/{linkId} finds the link and the insert of the Click row
\* fails, the response is still a 302 redirect to the stored originalUrl.
C1_RedirectWhenInsertFails ==
    [][(/\ last'.op = "click"
        /\ last'.fail = 2
        /\ LookupLink(DB, server, last'.arg) # {})
       => \E l \in LookupLink(DB, server, last'.arg) :
             last'.resp = [status |-> 302, location |-> l.original_url]]_vars

\* The engine refuses the Open row: it fails the statement, or the schema's
\* FOREIGN KEY finds no email with that id.
OpenInsertFails(req) ==
    req.fail = 1 \/ (ForeignKeys(server) /\ req.arg \notin Ids(emails))

\* C2: GET /t/{emailId}.png always answers 200 with the same fixed pixel
\* bytes and no-store cache headers, whether the insert of the Open row
\* succeeded or failed; when the insert fails the four tables are unchanged.
C2_PixelAlwaysServed ==
    [][last'.op = "pixel" =>
        /\ last'.resp.status = 200
        /\ last'.resp.type = "image/png"
        /\ last'.resp.body = TRACKING_PIXEL
        /\ last'.resp.cache = "no-store, no-cache, must-revalidate, private"
        /\ OpenInsertFails(last') => UNCHANGED tables]_vars

\* A fetch whose insert the engine failed was answered with the pixel.
C2_Witness ==
    /\ last.op = "pixel"
    /\ last.fail = 1
    /\ last.resp.status = 200
    /\ opens = {}

\* The ids a pixel fetch may name: those requested and those stored.
FetchedIds == {r.emailId : r \in PixelRequests} \cup {o.email_id : o \in opens}

OpenRows(os, X) == Cardinality({o \in os : o.email_id = X})

\* C3: over requests whose storage writes succeed, for every id X the
\* number of Open rows with email_id = X equals the number of
\* GET /t/X.png requests served, registered or not: every request changes
\* that number by one when it is a fetch of X and by nothing otherwise,
\* and a fetch touches no other table.
C3_OneOpenRowPerFetch ==
    [][(last'.fail = 0 /\ ~(last'.op = "pixel" /\ OpenInsertFails(last'))) =>
        /\ \A X \in FetchedIds :
              OpenRows(opens', X) =
                  OpenRows(opens, X) + (IF last'.op = "pixel" /\ last'.arg = X THEN 1 ELSE 0)
        /\ last'.op = "pixel" => UNCHANGED <<emails, links, clicks>>]_vars

\* C4: GET /c/{linkId} with a linkId that is the id of no Link row returns
\* 404 and leaves every table unchanged, whatever string the path supplies.
C4_UnknownLinkNotFound ==
    [][(last'.op = "click" /\ last'.fail = 0 /\ last'.arg \notin Ids(links)) =>
        /\ last'.resp.status = 404
        /\ UNCHANGED tables]_vars

ClickRows(cs, id) == Cardinality({c \in cs : c.link_id = id})

\* C5: GET /c/{linkId} for an existing link (whose lookup the engine
\* answers) redirects with 302 to the originalUrl stored for that link and
\* raises that link's click count by exactly one, and no other link's.
C5_ExistingLinkRedirects ==
    [][(last'.op = "click" /\ last'.fail # 1 /\ last'.arg \in Ids(links)) =>
        /\ \E l \in links :
              /\ l.id = last'.arg
              /\ last'.resp = [status |-> 302, location |-> l.original_url]
        /\ \A l \in links :
              ClickRows(clicks', l.id) =
                  ClickRows(clicks, l.id) + (IF l.id = last'.arg THEN 1 ELSE 0)]_vars

RECURSIVE SumOpenCounts(_)
SumOpenCounts(rows) ==
    IF rows = {} THEN 0
    ELSE LET r == CHOOSE x \in rows : TRUE
         IN  r.open_count + SumOpenCounts(rows \ {r})

RECURSIVE SumClickCounts(_)
SumClickCounts(rows) ==
    IF rows = {} THEN 0
    ELSE LET r == CHOOSE x \in rows : TRUE
         IN  r.click_count + SumClickCounts(rows \ {r})

\* What GET /api/stats?userEmail=X and GET /api/emails?userEmail=X answer
\* in the current state agree on the totals.
StatsMatchList(X) ==
    \A s \in StatsHandler(DB, server, now, X, 0), l \in ListHandler(DB, server, X, 0) :
        (s.resp.status = 200 /\ l.resp.status = 200) =>
            /\ s.resp.total_opens = SumOpenCounts(l.resp.body)
            /\ s.resp.total_clicks = SumClickCounts(l.resp.body)

Contains(s, t) == \E i \in 0..(Len(s) - Len(t)) : SubSeq(s, i + 1, i + Len(t)) = t

\* C7: no two Email rows share an id and no two Link rows share an id;
\* the id a successful POST /api/emails or POST /api/links returns is the
\* id of exactly one row and appears verbatim in the returned URL; a
\* registration whose generated id is already taken returns an error and no
\* id, and leaves the table unchanged.
C7_RegisteredIdsUnique ==
    [][/\ \A a, b \in emails' : a.id = b.id => a = b
       /\ \A a, b \in links' : a.id = b.id => a = b
       /\ (last'.op = "postEmails" /\ last'.resp.status = 200) =>
            /\ last'.resp.emailId = last'.arg
            /\ Cardinality({e \in emails' : e.id = last'.resp.emailId}) = 1
            /\ Contains(last'.resp.trackingPixel, last'.resp.emailId)
       /\ (last'.op = "postLinks" /\ last'.resp.status = 200) =>
            /\ last'.resp.linkId = last'.arg
            /\ Cardinality({l \in links' : l.id = last'.resp.linkId}) = 1
            /\ Contains(last'.resp.trackedUrl, last'.resp.linkId)
       /\ (last'.op = "postEmails" /\ last'.arg \in Ids(emails)) =>
            /\ last'.resp.status = 500
            /\ "emailId" \notin DOMAIN last'.resp
            /\ emails' = emails
       /\ (last'.op = "postLinks" /\ last'.arg \in Ids(links)) =>
            /\ last'.resp.status = 500
            /\ "linkId" \notin DOMAIN last'.resp
            /\ links' = links]_vars

\* A registration drew an id that was taken and was refused, with both
\* ids of the model registered.
C7_Witness ==
    /\ last.op = "postEmails"
    /\ last.fail = 0
    /\ last.resp.status = 500
    /\ Ids(emails) = {E1, E2}

\* C8: in every reachable state every Open row belongs to exactly one
\* existing Email row and every Click row to exactly one existing Link row.
C8_EventsBelongToRows ==
    /\ \A o \in opens : Cardinality({e \in emails : e.id = o.email_id}) = 1
    /\ \A c \in clicks : Cardinality({l \in links : l.id = c.link_id}) = 1

PairwiseDifferentIps(rows) == \A a, b \in rows : a # b => a.ip_address # b.ip_address

\* C9: for every email, the stats block of GET /api/emails/{id} has
\* uniqueOpens <= totalOpens and uniqueClicks <= totalClicks, with equality
\* exactly when the IP addresses of that email's opens (clicks) are pairwise
\* different; totalClicks counts the clicks of all links of that email.
C9_UniqueAtMostTotal ==
    \A e \in emails : \A out \in DetailHandler(DB, server, e.id, 0) :
        LET st == out.resp.stats
            os == {o \in opens : o.email_id = e.id}
            cs == {c \in clicks : \E l \in links : l.id = c.link_id /\ l.email_id = e.id}
        IN  /\ out.resp.status = 200
            /\ st.uniqueOpens <= st.totalOpens
            /\ st.uniqueClicks <= st.totalClicks
            /\ (st.uniqueOpens = st.totalOpens) <=> PairwiseDifferentIps(os)
            /\ (st.uniqueClicks = st.totalClicks) <=> PairwiseDifferentIps(cs)
            /\ st.totalClicks = Cardinality(cs)

\* The detail of a registered email was served with two opens from one
\* address.
C9_Witness ==
    /\ last.op = "detail"
    /\ last.resp.status = 200
    /\ last.arg \in Ids(emails)
    /\ last.resp.stats.totalOpens = 2
    /\ last.resp.stats.uniqueOpens = 1

\* C10: rows are append-only: no request modifies or deletes an existing
\* Email, Open, Link or Click row, and the GET /api/* and /health requests
\* change no table (so no count reported for an email ever decreases).
C10_RowsAppendOnly ==
    [][/\ emails \subseteq emails'
       /\ opens \subseteq opens'
       /\ links \subseteq links'
       /\ clicks \subseteq clicks'
       /\ last'.op \in {"list", "detail", "stats", "health"} => UNCHANGED tables]_vars

\* The handler gets to its k-th statement: the statements before it ran
\* without throwing and the handler did not answer before it.
ReachesStatement(req) ==
    LET k == req.fail
    IN  CASE req.op \in {"postEmails", "postLinks", "list"} -> k = 1
          [] req.op = "detail" ->
                LET q1 == Exec(DB, server, req.arg, FALSE, FALSE)
                    q2 == Exec(q1.db, server, req.arg, TRUE, FALSE)
                    q3 == Exec(q2.db, server, req.arg, FALSE, FALSE)
                    found == {e \in emails : Where(server, req.arg, e.id)}
                IN  \/ k = 1
                    \/ k = 2 /\ ~q1.threw /\ found # {}
                    \/ k = 3 /\ ~q1.threw /\ found # {} /\ ~q2.threw
                    \/ k = 4 /\ ~q1.threw /\ found # {} /\ ~q2.threw /\ ~q3.threw
          [] req.op = "stats" ->
                LET q1 == Exec(DB, server, req.arg, FALSE, FALSE)
                    q2 == Exec(q1.db, server, req.arg, FALSE, FALSE)
                IN  \/ k = 1
                    \/ k = 2 /\ ~q1.threw
                    \/ k = 3 /\ ~q1.threw /\ ~q2.threw /\ StatsQueries(server) = 3
          [] OTHER -> FALSE

GenericErrors ==
    {"Failed to create email", "Failed to create link", "Failed to fetch emails",
     "Failed to fetch email details", "Failed to fetch stats"}

\* C11: for every /api endpoint, a storage failure at any statement the
\* handler gets to (the second to fourth lookup of the detail endpoint and
\* the later statements of the stats endpoint included) is answered with
\* 500 and a generic error message only, no part of a result; a
\* registration that fails leaves the emails and links tables unchanged.
C11_StorageFailureIsGeneric500 ==
    [][/\ (last'.fail >= 1 /\ ReachesStatement(last')) =>
            /\ last'.resp.status = 500
            /\ DOMAIN last'.resp = {"status", "error"}
            /\ last'.resp.error \in GenericErrors
       /\ (last'.op \in {"postEmails", "postLinks"} /\ last'.resp.status = 500) =>
            UNCHANGED <<emails, links>>]_vars

\* The third lookup of the detail of a registered email, which has an open
\* recorded, failed and was answered with 500.
C11_Witness ==
    /\ last.op = "detail"
    /\ last.fail = 3
    /\ last.arg \in Ids(emails)
    /\ \E o \in opens : o.email_id = last.arg
    /\ last.resp.status = 500

====
